---- MODULE Spec2Model ----
(***************************************************************************)
(* Weekly settlement engine of baw_v2: the Kevin bubble (kevin_logic.py),  *)
(* aggregation (compute.py), split rules (split_rules.py) and transfer     *)
(* netting (settlement.py), together with the callers that open a database *)
(* connection, run the computation and commit or close (main.py, scripts). *)
(*                                                                         *)
(* Money.  Row amounts and nets are integers in cents.  A split fraction   *)
(* is an integer number of 60ths (1/3 = 20, 0.45 = 27, 0.20 = 12 ...), so  *)
(* book_total * fraction is an integer number of "ticks" of 1/60 cent;     *)
(* final balances and settlements are kept in ticks, exactly.  round(x, 2) *)
(* is rounding of ticks to the nearest whole cent.                         *)
(***************************************************************************)
EXTENDS Integers, Sequences, FiniteSets, TLC

VARIABLES
    rows,            \* the current week's rows as the dashboard query returns them
    kevin_instance,  \* TRUE iff player_instances has a current row for pyr109
    kevin_balance,   \* committed kevin_balance row: [has, current_balance]
    active,          \* the connections that callers may open
    conn,            \* per connection: caller, position, locals, pending write, result
    lock,            \* connection holding the row lock on kevin_balance, 0 if none
    sp_in,           \* arguments of a direct call of calculate_split_percentages
    sp_out,          \* its return value
    tr               \* a direct call of compute_transfers: arguments, position, locals

vars == <<rows, kevin_instance, kevin_balance, active, conn, lock, sp_in, sp_out, tr>>

-----------------------------------------------------------------------------
(* Scales and program constants *)

FracDen == 60                 \* fractions are counted in 60ths
TicksPerCent == 60            \* one cent = 60 ticks
KevinId == 109                \* player_id 'pyr109'
BubbleThreshold == 10000      \* $100 in cents
LowPlayers == 5               \* num_players < 5
LowNet == 50000               \* |net| < $500
DominantBook == 100000        \* book_total > $1000
CentsTolerance == 60          \* cents_tolerance = 0.01, in ticks

NONE == ""                    \* Python None for an agent name

Abs(x) == IF x < 0 THEN -x ELSE x
Max(a, b) == IF a >= b THEN a ELSE b
Min(a, b) == IF a <= b THEN a ELSE b

RECURSIVE SumSeq(_)
SumSeq(s) == IF s = <<>> THEN 0 ELSE Head(s) + SumSeq(Tail(s))

Range(s) == {s[i] : i \in 1..Len(s)}

\* round(x, 2) of an amount given in ticks: nearest whole cent, ties to even;
\* the result is in cents
Round2(t) ==
    LET q == t \div TicksPerCent
        r == t % TicksPerCent
    IN  IF 2 * r < TicksPerCent THEN q
        ELSE IF 2 * r > TicksPerCent THEN q + 1
        ELSE IF q % 2 = 0 THEN q ELSE q + 1

-----------------------------------------------------------------------------
(* split_rules.py *)

\* an agents dict is a pair: names (the dict's key order) and data (name -> record)

\* IsLowExposure with inclusive comparisons
IsLowExposure_inclusive(d) == d.num_players <= LowPlayers /\ Abs(d.net) <= LowNet

IsLowExposure(d) == d.num_players < LowPlayers /\ Abs(d.net) < LowNet

low_exposure_agents(names, data) ==
    SelectSeq(names, LAMBDA n : IsLowExposure(data[n]))

\* IsDominant without the 75% share test
IsDominant_anyWinner(d, book_total) == d.net > 0

\* net > book_total * 0.75, on cents: 4 * net > 3 * book_total
IsDominant(d, book_total) == d.net > 0 /\ 4 * d.net > 3 * book_total

dominant_winner(names, data, book_total) ==
    IF book_total > DominantBook
    THEN LET c == SelectSeq(names, LAMBDA n : IsDominant(data[n], book_total))
         IN  IF c = <<>> THEN NONE ELSE Head(c)
    ELSE NONE

middle_agent(names, low, winner) ==
    LET c == SelectSeq(names, LAMBDA n : n # winner /\ n \notin Range(low))
    IN  IF c = <<>> THEN NONE ELSE Head(c)

\* SplitRule with the low-exposure rule taken only when there is no winner
SplitRule_lowNeedsNoWinner(names, data, book_total) ==
    LET low == low_exposure_agents(names, data)
        win == dominant_winner(names, data, book_total)
    IN  IF Len(names) = 0 THEN "empty"
        ELSE IF Len(names) # 3 THEN "even"
        ELSE IF /\ win # NONE /\ Len(low) > 0 /\ win \notin Range(low)
                /\ middle_agent(names, low, win) # NONE /\ Len(low) = 1
             THEN "combined"
        ELSE IF win # NONE /\ Len(low) = 0 THEN "dominant"
        ELSE IF Len(low) > 0 /\ win = NONE THEN "low"
        ELSE "even"

\* SplitRule with the special rules tried for any number of groups
SplitRule_anyCount(names, data, book_total) ==
    LET low == low_exposure_agents(names, data)
        win == dominant_winner(names, data, book_total)
    IN  IF Len(names) = 0 THEN "empty"
        ELSE IF /\ win # NONE /\ Len(low) > 0 /\ win \notin Range(low)
                /\ middle_agent(names, low, win) # NONE /\ Len(low) = 1
             THEN "combined"
        ELSE IF win # NONE /\ Len(low) = 0 THEN "dominant"
        ELSE IF Len(low) > 0 THEN "low"
        ELSE "even"

\* SplitRule with the dominant-winner rule tried before the combined rule
SplitRule_dominantFirst(names, data, book_total) ==
    LET low == low_exposure_agents(names, data)
        win == dominant_winner(names, data, book_total)
    IN  IF Len(names) = 0 THEN "empty"
        ELSE IF Len(names) # 3 THEN "even"
        ELSE IF win # NONE THEN "dominant"
        ELSE IF Len(low) > 0 THEN "low"
        ELSE "even"

\* which rule of calculate_split_percentages returns
SplitRule(names, data, book_total) ==
    LET low == low_exposure_agents(names, data)
        win == dominant_winner(names, data, book_total)
    IN  IF Len(names) = 0 THEN "empty"
        ELSE IF Len(names) # 3 THEN "even"
        ELSE IF /\ win # NONE /\ Len(low) > 0 /\ win \notin Range(low)
                /\ middle_agent(names, low, win) # NONE /\ Len(low) = 1
             THEN "combined"
        ELSE IF win # NONE /\ Len(low) = 0 THEN "dominant"
        ELSE IF Len(low) > 0 THEN "low"
        ELSE "even"

\* calculate_split_percentages whose dominant rule leaves the other groups at
\* the even split
calculate_split_percentages_othersEven(names, data, book_total) ==
    LET n    == Len(names)
        low  == low_exposure_agents(names, data)
        win  == dominant_winner(names, data, book_total)
        mid  == middle_agent(names, low, win)
        rule == SplitRule(names, data, book_total)
        normal_split == ((8 * FracDen) \div 10) \div Max(n - Len(low), 1)
    IN  [a \in Range(names) |->
            CASE rule = "combined" ->
                    IF a = win THEN (45 * FracDen) \div 100
                    ELSE IF a = mid THEN (35 * FracDen) \div 100
                    ELSE IF a = low[1] THEN (15 * FracDen) \div 100
                    ELSE FracDen \div n
              [] rule = "dominant" ->
                    IF a = win THEN (40 * FracDen) \div 100
                    ELSE FracDen \div n
              [] rule = "low" ->
                    IF a \in Range(low) THEN (20 * FracDen) \div 100
                    ELSE normal_split
              [] OTHER -> FracDen \div n]

calculate_split_percentages(names, data, book_total) ==
    LET n    == Len(names)
        low  == low_exposure_agents(names, data)
        win  == dominant_winner(names, data, book_total)
        mid  == middle_agent(names, low, win)
        rule == SplitRule(names, data, book_total)
        normal_split == ((8 * FracDen) \div 10) \div Max(n - Len(low), 1)
    IN  [a \in Range(names) |->
            CASE rule = "combined" ->
                    IF a = win THEN (45 * FracDen) \div 100
                    ELSE IF a = mid THEN (35 * FracDen) \div 100
                    ELSE IF a = low[1] THEN (15 * FracDen) \div 100
                    ELSE FracDen \div n
              [] rule = "dominant" ->
                    IF a = win THEN (40 * FracDen) \div 100
                    ELSE (30 * FracDen) \div 100
              [] rule = "low" ->
                    IF a \in Range(low) THEN (20 * FracDen) \div 100
                    ELSE normal_split
              [] OTHER -> FracDen \div n]

\* calculate_final_balances giving every group the average share
calculate_final_balances_average(names, book_total, splits) ==
    [a \in DOMAIN splits |-> (book_total * FracDen) \div Len(names)]

\* final_balances[name] = book_total * split_pct, in ticks
calculate_final_balances(names, book_total, splits) ==
    [a \in DOMAIN splits |-> book_total * splits[a]]

\* [n for n, s in splits.items() if s == v][0]
FirstWith(names, splits, v) ==
    LET c == SelectSeq(names, LAMBDA n : splits[n] = v)
    IN  IF c = <<>> THEN NONE ELSE Head(c)

\* format_split_explanation: the message chosen from the shape of the fraction
\* map, and the groups it names
format_split_explanation(names, splits) ==
    LET split_values == {splits[a] : a \in Range(names)}
        standard == [kind |-> "standard", winner |-> NONE, low |-> NONE]
    IN  IF Cardinality(split_values) = 1 THEN standard
        ELSE IF (45 * FracDen) \div 100 \in split_values
             THEN [kind |-> "combined",
                   winner |-> FirstWith(names, splits, (45 * FracDen) \div 100),
                   low |-> FirstWith(names, splits, (15 * FracDen) \div 100)]
        ELSE IF (20 * FracDen) \div 100 \in split_values
             THEN [kind |-> "low", winner |-> NONE,
                   low |-> FirstWith(names, splits, (20 * FracDen) \div 100)]
        ELSE IF (40 * FracDen) \div 100 \in split_values
                /\ (30 * FracDen) \div 100 \in split_values
             THEN [kind |-> "great_week",
                   winner |-> FirstWith(names, splits, (40 * FracDen) \div 100),
                   low |-> NONE]
        ELSE standard

-----------------------------------------------------------------------------
(* settlement.py *)

\* InsertDesc that puts a later element before the earlier ones of equal amount
RECURSIVE InsertDesc_tiesReversed(_, _)
InsertDesc_tiesReversed(sorted, x) ==
    IF sorted = <<>> THEN <<x>>
    ELSE IF Head(sorted)[2] > x[2]
         THEN <<Head(sorted)>> \o InsertDesc_tiesReversed(Tail(sorted), x)
    ELSE <<x>> \o sorted

\* list.sort(key = amount, reverse = True): stable, descending
RECURSIVE InsertDesc(_, _)
InsertDesc(sorted, x) ==
    IF sorted = <<>> THEN <<x>>
    ELSE IF Head(sorted)[2] >= x[2] THEN <<Head(sorted)>> \o InsertDesc(Tail(sorted), x)
    ELSE <<x>> \o sorted

RECURSIVE SortDesc(_)
SortDesc(s) ==
    IF s = <<>> THEN <<>>
    ELSE InsertDesc(SortDesc(SubSeq(s, 1, Len(s) - 1)), s[Len(s)])

\* PayersOf taking every group with a positive settlement
PayersOf_anyPositive(names, settlement) ==
    LET ps == SelectSeq(names, LAMBDA n : settlement[n] > 0)
    IN  [i \in 1..Len(ps) |-> <<ps[i], settlement[ps[i]]>>]

\* payers: settlement > tolerance, as <<name, amount>>, in dict order
PayersOf(names, settlement) ==
    LET ps == SelectSeq(names, LAMBDA n : settlement[n] > CentsTolerance)
    IN  [i \in 1..Len(ps) |-> <<ps[i], settlement[ps[i]]>>]

\* ReceiversOf taking every group with a negative settlement
ReceiversOf_anyNegative(names, settlement) ==
    LET rs == SelectSeq(names, LAMBDA n : settlement[n] < 0)
    IN  [i \in 1..Len(rs) |-> <<rs[i], -settlement[rs[i]]>>]

\* receivers: settlement < -tolerance, as <<name, amount owed>>
ReceiversOf(names, settlement) ==
    LET rs == SelectSeq(names, LAMBDA n : settlement[n] < -CentsTolerance)
    IN  [i \in 1..Len(rs) |-> <<rs[i], -settlement[rs[i]]>>]

\* MatchStep that also records the payer's rounded remainder as a transfer
\* when it moves past the payer
MatchStep_flushRemainder(st) ==
    LET payer_amt0 == st.payers[st.i][2]
        recv_amt0  == st.receivers[st.j][2]
        amt        == Round2(Min(payer_amt0, recv_amt0))
        payer_amt  == Round2(payer_amt0 - amt * TicksPerCent) * TicksPerCent
        recv_amt   == Round2(recv_amt0 - amt * TicksPerCent) * TicksPerCent
        emitted    == IF amt * TicksPerCent >= CentsTolerance
                      THEN Append(st.transfers,
                             [from |-> st.payers[st.i][1], to |-> st.receivers[st.j][1],
                              amount |-> amt])
                      ELSE st.transfers
    IN  [payers    |-> [st.payers EXCEPT ![st.i] = <<st.payers[st.i][1], payer_amt>>],
         receivers |-> [st.receivers EXCEPT ![st.j] = <<st.receivers[st.j][1], recv_amt>>],
         i         |-> IF payer_amt <= CentsTolerance THEN st.i + 1 ELSE st.i,
         j         |-> IF recv_amt <= CentsTolerance THEN st.j + 1 ELSE st.j,
         transfers |-> IF payer_amt <= CentsTolerance
                       THEN Append(emitted,
                              [from |-> st.payers[st.i][1], to |-> st.receivers[st.j][1],
                               amount |-> payer_amt \div TicksPerCent])
                       ELSE emitted]

\* MatchStep that moves past a payer or receiver only below zero
MatchStep_advanceBelowZero(st) ==
    LET payer_amt0 == st.payers[st.i][2]
        recv_amt0  == st.receivers[st.j][2]
        amt        == Round2(Min(payer_amt0, recv_amt0))
        payer_amt  == Round2(payer_amt0 - amt * TicksPerCent) * TicksPerCent
        recv_amt   == Round2(recv_amt0 - amt * TicksPerCent) * TicksPerCent
    IN  [payers    |-> [st.payers EXCEPT ![st.i] = <<st.payers[st.i][1], payer_amt>>],
         receivers |-> [st.receivers EXCEPT ![st.j] = <<st.receivers[st.j][1], recv_amt>>],
         i         |-> IF payer_amt < 0 THEN st.i + 1 ELSE st.i,
         j         |-> IF recv_amt < 0 THEN st.j + 1 ELSE st.j,
         transfers |-> IF amt * TicksPerCent >= CentsTolerance
                       THEN Append(st.transfers,
                              [from |-> st.payers[st.i][1], to |-> st.receivers[st.j][1],
                               amount |-> amt])
                       ELSE st.transfers]

\* one iteration of the while loop on st = [payers, receivers, i, j, transfers];
\* amounts of payers and receivers are in ticks, a transfer amount is in cents
MatchStep(st) ==
    LET payer_amt0 == st.payers[st.i][2]
        recv_amt0  == st.receivers[st.j][2]
        amt        == Round2(Min(payer_amt0, recv_amt0))
        payer_amt  == Round2(payer_amt0 - amt * TicksPerCent) * TicksPerCent
        recv_amt   == Round2(recv_amt0 - amt * TicksPerCent) * TicksPerCent
    IN  [payers    |-> [st.payers EXCEPT ![st.i] = <<st.payers[st.i][1], payer_amt>>],
         receivers |-> [st.receivers EXCEPT ![st.j] = <<st.receivers[st.j][1], recv_amt>>],
         i         |-> IF payer_amt <= CentsTolerance THEN st.i + 1 ELSE st.i,
         j         |-> IF recv_amt <= CentsTolerance THEN st.j + 1 ELSE st.j,
         transfers |-> IF amt * TicksPerCent >= CentsTolerance
                       THEN Append(st.transfers,
                              [from |-> st.payers[st.i][1], to |-> st.receivers[st.j][1],
                               amount |-> amt])
                       ELSE st.transfers]

\* while i < len(payers) and j < len(receivers), with indices from 1
LoopCondition(st) == st.i <= Len(st.payers) /\ st.j <= Len(st.receivers)

\* the while loop
RECURSIVE MatchLoop(_, _, _, _, _)
MatchLoop(payers, receivers, i, j, transfers) ==
    LET st == [payers |-> payers, receivers |-> receivers, i |-> i, j |-> j,
               transfers |-> transfers]
    IN  IF ~LoopCondition(st) THEN transfers
        ELSE LET n == MatchStep(st)
             IN  MatchLoop(n.payers, n.receivers, n.i, n.j, n.transfers)

compute_transfers(names, settlement) ==
    MatchLoop(SortDesc(PayersOf(names, settlement)),
              SortDesc(ReceiversOf(names, settlement)), 1, 1, <<>>)

-----------------------------------------------------------------------------
(* kevin_logic.py *)

NoEntry == [has |-> FALSE, current_balance |-> 0]
Entry(b) == [has |-> TRUE, current_balance |-> b]
NoWrite == [has |-> FALSE, val |-> 0]

\* index of the first row with player_id 'pyr109', 0 if there is none
RECURSIVE FindKevin(_, _)
FindKevin(player_rows, i) ==
    IF i > Len(player_rows) THEN 0
    ELSE IF player_rows[i].player_id = KevinId THEN i
    ELSE FindKevin(player_rows, i + 1)

kevin_index(player_rows) == FindKevin(player_rows, 1)

\* SELECT current_balance ... ; 0.0 when the row does not exist
get_kevin_balance(stored) == IF stored.has THEN stored.current_balance ELSE 0

\* weekly_amount = float(kevin_row.get('week_amount', 0)), for a row whose
\* amount is not None
KevinWeekly(kevin_row) ==
    IF kevin_row.amount = "absent" THEN 0 ELSE kevin_row.week_amount

\* float(None) raises TypeError
AmountIsNone(kevin_row) == kevin_row.amount = "null"

NoExplanation == [kind |-> "", weekly_amount |-> 0, balance |-> 0]

\* BubbleDecision whose deferral stores this week's amount in place of the sum
BubbleDecision_deferWeekOnly(current_balance, weekly_amount) ==
    LET potential_balance == current_balance + weekly_amount
    IN  IF Abs(potential_balance) < BubbleThreshold
        THEN [new_balance |-> weekly_amount,
              week_amount |-> 0,
              explanation |-> [kind |-> "deferred", weekly_amount |-> weekly_amount,
                               balance |-> weekly_amount]]
        ELSE [new_balance |-> 0,
              week_amount |-> potential_balance,
              explanation |-> [kind |-> IF current_balance # 0
                                        THEN "released_accumulated"
                                        ELSE "released_week",
                               weekly_amount |-> weekly_amount,
                               balance |-> potential_balance]]

\* BubbleDecision that still defers a total of exactly the threshold
BubbleDecision_inclusiveThreshold(current_balance, weekly_amount) ==
    LET potential_balance == current_balance + weekly_amount
    IN  IF Abs(potential_balance) <= BubbleThreshold
        THEN [new_balance |-> potential_balance,
              week_amount |-> 0,
              explanation |-> [kind |-> "deferred", weekly_amount |-> weekly_amount,
                               balance |-> potential_balance]]
        ELSE [new_balance |-> 0,
              week_amount |-> potential_balance,
              explanation |-> [kind |-> IF current_balance # 0
                                        THEN "released_accumulated"
                                        ELSE "released_week",
                               weekly_amount |-> weekly_amount,
                               balance |-> potential_balance]]

\* BubbleDecision with the threshold tested on the weekly amount alone
BubbleDecision_weeklyOnly(current_balance, weekly_amount) ==
    LET potential_balance == current_balance + weekly_amount
    IN  IF Abs(weekly_amount) < BubbleThreshold
        THEN [new_balance |-> potential_balance,
              week_amount |-> 0,
              explanation |-> [kind |-> "deferred", weekly_amount |-> weekly_amount,
                               balance |-> potential_balance]]
        ELSE [new_balance |-> 0,
              week_amount |-> potential_balance,
              explanation |-> [kind |-> IF current_balance # 0
                                        THEN "released_accumulated"
                                        ELSE "released_week",
                               weekly_amount |-> weekly_amount,
                               balance |-> potential_balance]]

\* BubbleDecision with a release that applies this week's amount only
BubbleDecision_releaseWeekOnly(current_balance, weekly_amount) ==
    LET potential_balance == current_balance + weekly_amount
    IN  IF Abs(potential_balance) < BubbleThreshold
        THEN [new_balance |-> potential_balance,
              week_amount |-> 0,
              explanation |-> [kind |-> "deferred", weekly_amount |-> weekly_amount,
                               balance |-> potential_balance]]
        ELSE [new_balance |-> 0,
              week_amount |-> weekly_amount,
              explanation |-> [kind |-> IF current_balance # 0
                                        THEN "released_accumulated"
                                        ELSE "released_week",
                               weekly_amount |-> weekly_amount,
                               balance |-> potential_balance]]

\* the branch on abs(potential_balance) < 100: the value handed to
\* update_kevin_balance, the amount put in Kevin's row and the explanation
BubbleDecision(current_balance, weekly_amount) ==
    LET potential_balance == current_balance + weekly_amount
    IN  IF Abs(potential_balance) < BubbleThreshold
        THEN [new_balance |-> potential_balance,
              week_amount |-> 0,
              explanation |-> [kind |-> "deferred", weekly_amount |-> weekly_amount,
                               balance |-> potential_balance]]
        ELSE [new_balance |-> 0,
              week_amount |-> potential_balance,
              explanation |-> [kind |-> IF current_balance # 0
                                        THEN "released_accumulated"
                                        ELSE "released_week",
                               weekly_amount |-> weekly_amount,
                               balance |-> potential_balance]]

\* ModifiedRows that builds Kevin's new row without his display name
ModifiedRows_dropsName(player_rows, idx, x) ==
    [player_rows EXCEPT ![idx] = [@ EXCEPT !.week_amount = x, !.amount = "value",
                                             !.display_name = <<>>]]

\* modified_rows = player_rows.copy(); modified_rows[kevin_index] = {**kevin_row, 'week_amount': x}
ModifiedRows(player_rows, idx, x) ==
    [player_rows EXCEPT ![idx] = [@ EXCEPT !.week_amount = x, !.amount = "value"]]

-----------------------------------------------------------------------------
(* compute.py *)

\* keys of the agents dict in insertion order: agents in order of first row
RECURSIVE AgentNames(_, _)
AgentNames(rs, seen) ==
    IF rs = <<>> THEN seen
    ELSE AgentNames(Tail(rs),
                    IF Head(rs).agent \in Range(seen) THEN seen
                    ELSE Append(seen, Head(rs).agent))

RowsOf(rs, a) == SelectSeq(rs, LAMBDA r : r.agent = a)

\* week_amt = float(r["week_amount"] or 0.0), for a row that has the key
WeekAmt(r) == IF r.amount = "null" THEN 0 ELSE r.week_amount

\* r["week_amount"] raises KeyError
HasNoAmountKey(r) == r.amount = "absent"

\* NetOf summing the amounts as they are, without the negation
NetOf_notNegated(rs, a) ==
    LET mine == RowsOf(rs, a)
    IN  SumSeq([i \in 1..Len(mine) |-> mine[i].week_amount])

\* agent_net = -week_amt, summed per agent
NetOf(rs, a) ==
    LET mine == RowsOf(rs, a)
    IN  SumSeq([i \in 1..Len(mine) |-> -WeekAmt(mine[i])])

BookTotal(rs) == SumSeq([i \in 1..Len(rs) |-> -WeekAmt(rs[i])])

\* Annotate labelling a zero contribution "Request"
Annotate_zeroIsRequest(r) ==
    LET agent_net == -WeekAmt(r)
    IN  [agent |-> r.agent, player_id |-> r.player_id,
         display_name |-> r.display_name, amount |-> r.amount,
         week_amount |-> r.week_amount,
         profit |-> agent_net,
         action |-> IF agent_net >= 0 THEN "Request" ELSE "Pay",
         abs_amount |-> Abs(agent_net)]

\* the row as appended to agents[agent]["players"]
Annotate(r) ==
    LET agent_net == -WeekAmt(r)
    IN  [agent |-> r.agent, player_id |-> r.player_id,
         display_name |-> r.display_name, amount |-> r.amount,
         week_amount |-> r.week_amount,
         profit |-> agent_net,
         action |-> IF agent_net > 0 THEN "Request" ELSE "Pay",
         abs_amount |-> Abs(agent_net)]

\* str.lower() on a name given as a sequence of character codes
Lower(name) ==
    [i \in 1..Len(name) |->
        IF name[i] >= 65 /\ name[i] <= 90 THEN name[i] + 32 ELSE name[i]]

\* a < b for Python strings: lexicographic on character codes
RECURSIVE StrLess(_, _)
StrLess(a, b) ==
    IF b = <<>> THEN FALSE
    ELSE IF a = <<>> THEN TRUE
    ELSE IF Head(a) # Head(b) THEN Head(a) < Head(b)
    ELSE StrLess(Tail(a), Tail(b))

\* action_order = {"Pay": 0, "Request": 1}
action_order(action) == IF action = "Pay" THEN 0 ELSE 1

\* key(p) < key(q) for key = (action_order[action], display_name.lower())
KeyLess(p, q) ==
    \/ action_order(p.action) < action_order(q.action)
    \/ /\ action_order(p.action) = action_order(q.action)
       /\ StrLess(Lower(p.display_name), Lower(q.display_name))

\* a["players"].sort(key=...): stable, ascending
RECURSIVE InsertPlayer(_, _)
InsertPlayer(sorted, x) ==
    IF sorted = <<>> THEN <<x>>
    ELSE IF KeyLess(x, Head(sorted)) THEN <<x>> \o sorted
    ELSE <<Head(sorted)>> \o InsertPlayer(Tail(sorted), x)

RECURSIVE SortPlayers(_)
SortPlayers(s) ==
    IF s = <<>> THEN <<>>
    ELSE LET rest == SortPlayers(SubSeq(s, 1, Len(s) - 1))
         IN  InsertPlayer(rest, s[Len(s)])

PlayersOf(rs, a) ==
    LET mine == RowsOf(rs, a)
    IN  SortPlayers([i \in 1..Len(mine) |-> Annotate(mine[i])])

\* everything compute_dashboard does after the bubble step
compute_dashboard(rs, kevin_explanation) ==
    LET names      == AgentNames(rs, <<>>)
        data       == [a \in Range(names) |->
                         [net |-> NetOf(rs, a), num_players |-> Len(RowsOf(rs, a))]]
        book_total == BookTotal(rs)
        splits     == calculate_split_percentages(names, data, book_total)
        final_balances == calculate_final_balances(names, book_total, splits)
        settlement == [a \in Range(names) |->
                         data[a].net * TicksPerCent - final_balances[a]]
    IN  [rows |-> rs,
         names |-> names,
         agents |-> [a \in Range(names) |->
                        [players |-> PlayersOf(rs, a),
                         net |-> data[a].net,
                         num_players |-> data[a].num_players,
                         final_balance |-> final_balances[a],
                         split_percentage |-> splits[a],
                         settlement |-> settlement[a]]],
         book_total |-> book_total,
         transfers |-> compute_transfers(names, settlement),
         rule |-> SplitRule(names, data, book_total),
         explanation |-> format_split_explanation(names, splits),
         kevin_bubble |-> kevin_explanation]

NoResult ==
    [rows |-> <<>>, names |-> <<>>, agents |-> <<>>, book_total |-> 0,
     transfers |-> <<>>, rule |-> "empty",
     explanation |-> [kind |-> "standard", winner |-> NONE, low |-> NONE],
     kevin_bubble |-> NoExplanation]

-----------------------------------------------------------------------------
(* Input data: the weekly rows in the database *)

NConn == 2                    \* connections of the concurrent specification
Conns == 1..NConn

Excluded == "Dro"                            \* a.name != 'Dro'
KevinAgent == "Gabe"

PlayerCounts == {LowPlayers - 1, LowPlayers}
NetSet == {90000, 15000, 5000}               \* agent nets of the lead row, cents
KevinAmounts == {-15000, -10000, -5000, 0, 5000, 15000}

\* display names as character codes, None being the empty string:
\* "b", "A", "a", "Ba", None for the players of an agent, "K" for Kevin
DisplayName(player_id) ==
    CASE player_id = KevinId -> <<75>>
      [] player_id % 10 = 1 -> <<98>>
      [] player_id % 10 = 2 -> <<65>>
      [] player_id % 10 = 3 -> <<97>>
      [] player_id % 10 = 4 -> <<66, 97>>
      [] OTHER -> <<>>

\* count rows of one agent: the first carries -net, the others 0
AgentRows(agent, base, count, net) ==
    [i \in 1..count |->
        [agent |-> agent, player_id |-> base + i,
         display_name |-> DisplayName(base + i),
         amount |-> "value",
         week_amount |-> IF i = 1 THEN -net ELSE 0]]

KevinRow(k) ==
    <<[agent |-> KevinAgent, player_id |-> KevinId,
       display_name |-> DisplayName(KevinId), amount |-> "value", week_amount |-> k]>>

\* Kevin's row with week_amount None (kind "null") or without the key (kind
\* "absent"); the field week_amount of the record then carries no information
KevinRowMissing(kind) ==
    <<[agent |-> KevinAgent, player_id |-> KevinId,
       display_name |-> DisplayName(KevinId), amount |-> kind, week_amount |-> 0]>>

\* rows of a week as a caller may build them, Kevin's amount missing
MissingRows ==
    { AgentRows("Gabe", 100, LowPlayers, 90000) \o KevinRowMissing(kind)
        \o AgentRows("Orso", 200, c, n)
        \o AgentRows("Trev", 300, LowPlayers, 5000) :
        kind \in {"null", "absent"}, c \in PlayerCounts, n \in NetSet }

\* rows of a week in ORDER BY a.name, pi.player_id
WeekRows ==
    { dro \o g \o kev \o o \o t :
        dro \in {<<>>, AgentRows(Excluded, 400, 2, 30000)},
        g   \in {AgentRows("Gabe", 100, LowPlayers, n) : n \in NetSet},
        kev \in {<<>>} \cup {KevinRow(k) : k \in KevinAmounts},
        o   \in {AgentRows("Orso", 200, c, n) : c \in PlayerCounts, n \in NetSet},
        t   \in {<<>>} \cup
                {AgentRows("Trev", 300, c, n) : c \in PlayerCounts, n \in NetSet} }

\* the rows the concurrent specification starts from: only Kevin's amount varies
ConcRows ==
    { AgentRows("Gabe", 100, LowPlayers, 90000) \o KevinRow(k)
        \o AgentRows("Orso", 200, LowPlayers, 15000)
        \o AgentRows("Trev", 300, LowPlayers, 5000) : k \in KevinAmounts }

\* coalesce(wr.week_amount, 0) ... WHERE ... a.name != 'Dro': every row of the
\* result has the column and a number in it
DashboardQuery(rs) ==
    LET kept == SelectSeq(rs, LAMBDA r : r.agent # Excluded)
    IN  [i \in 1..Len(kept) |->
            IF kept[i].amount = "value" THEN kept[i]
            ELSE [kept[i] EXCEPT !.amount = "value", !.week_amount = 0]]

-----------------------------------------------------------------------------
(* Connections *)

IdleConn ==
    [pc |-> "idle", caller |-> "", current_balance |-> 0, weekly_amount |-> 0,
     pend |-> NoWrite, res |-> NoResult]

\* the rows the caller hands to the computation
PlayerRows(c) ==
    IF conn[c].caller = "dashboard" THEN DashboardQuery(rows) ELSE rows

\* what the caller gets back: the dashboard runs compute_dashboard, the bubble
\* test script calls apply_kevin_bubble_logic alone
Result(c, rs, explanation) ==
    IF conn[c].caller = "dashboard" THEN compute_dashboard(rs, explanation)
    ELSE [NoResult EXCEPT !.rows = rs, !.kevin_bubble = explanation]

\* conn = get_db(); cur = conn.cursor(); the row query
Connect(c, caller) ==
    /\ c \in active
    /\ conn[c].pc \in {"idle", "done", "failed"}
    /\ conn' = [conn EXCEPT ![c] = [IdleConn EXCEPT !.pc = "open", !.caller = caller]]
    /\ UNCHANGED <<rows, kevin_instance, kevin_balance, active, lock, sp_in, sp_out, tr>>

\* ReadBalance without the check that a Kevin instance exists
ReadBalance_noInstanceCheck(c) ==
    /\ conn[c].pc = "open"
    /\ LET pr  == PlayerRows(c)
           idx == kevin_index(pr)
       IN  IF idx = 0
           THEN conn' = [conn EXCEPT ![c].pc = "applied",
                                     ![c].res = Result(c, pr, NoExplanation)]
           ELSE IF AmountIsNone(pr[idx])
           THEN conn' = [conn EXCEPT ![c].pc = "failed"]
           ELSE conn' = [conn EXCEPT ![c].pc = "read",
                                     ![c].current_balance = get_kevin_balance(kevin_balance),
                                     ![c].weekly_amount = KevinWeekly(pr[idx])]
    /\ UNCHANGED <<rows, kevin_instance, kevin_balance, active, lock, sp_in, sp_out, tr>>

\* apply_kevin_bubble_logic up to and including get_kevin_balance and the
\* read of the weekly amount, which raises when the amount is None; when there
\* is no Kevin instance or no Kevin row it returns (player_rows, "") at once
ReadBalance(c) ==
    /\ conn[c].pc = "open"
    /\ LET pr  == PlayerRows(c)
           idx == kevin_index(pr)
       IN  IF ~kevin_instance \/ idx = 0
           THEN conn' = [conn EXCEPT ![c].pc = "applied",
                                     ![c].res = Result(c, pr, NoExplanation)]
           ELSE IF AmountIsNone(pr[idx])
           THEN conn' = [conn EXCEPT ![c].pc = "failed"]
           ELSE conn' = [conn EXCEPT ![c].pc = "read",
                                     ![c].current_balance = get_kevin_balance(kevin_balance),
                                     ![c].weekly_amount = KevinWeekly(pr[idx])]
    /\ UNCHANGED <<rows, kevin_instance, kevin_balance, active, lock, sp_in, sp_out, tr>>

\* WriteBack on a connection in autocommit mode: the upsert is committed at once
WriteBack_autocommit(c) ==
    /\ conn[c].pc = "read"
    /\ lock \in {0, c}
    /\ LET pr  == PlayerRows(c)
           idx == kevin_index(pr)
           d   == BubbleDecision(conn[c].current_balance, conn[c].weekly_amount)
       IN  /\ conn' = [conn EXCEPT ![c].pc = "applied",
                                   ![c].pend = [has |-> TRUE, val |-> d.new_balance],
                                   ![c].res = Result(c, ModifiedRows(pr, idx, d.week_amount),
                                                     d.explanation)]
           /\ kevin_balance' = Entry(d.new_balance)
    /\ lock' = c
    /\ UNCHANGED <<rows, kevin_instance, active, sp_in, sp_out, tr>>

\* the rest of apply_kevin_bubble_logic: update_kevin_balance (an upsert in the
\* connection's open transaction, which takes the row lock) and the modified
\* rows; then the rest of compute_dashboard
WriteBack(c) ==
    /\ conn[c].pc = "read"
    /\ lock \in {0, c}
    /\ LET pr  == PlayerRows(c)
           idx == kevin_index(pr)
           d   == BubbleDecision(conn[c].current_balance, conn[c].weekly_amount)
       IN  conn' = [conn EXCEPT ![c].pc = "applied",
                                ![c].pend = [has |-> TRUE, val |-> d.new_balance],
                                ![c].res = Result(c, ModifiedRows(pr, idx, d.week_amount),
                                                  d.explanation)]
    /\ lock' = c
    /\ UNCHANGED <<rows, kevin_instance, kevin_balance, active, sp_in, sp_out, tr>>

\* test_kevin_bubble.py: conn.commit() after apply_kevin_bubble_logic
Commit(c) ==
    /\ conn[c].pc = "applied"
    /\ conn[c].caller = "test"
    /\ kevin_balance' = IF conn[c].pend.has THEN Entry(conn[c].pend.val)
                        ELSE kevin_balance
    /\ conn' = [conn EXCEPT ![c].pc = "done", ![c].pend = NoWrite]
    /\ lock' = IF lock = c THEN 0 ELSE lock
    /\ UNCHANGED <<rows, kevin_instance, active, sp_in, sp_out, tr>>

\* dashboard(): conn.close() with no commit; the open transaction is discarded
Close(c) ==
    /\ conn[c].pc = "applied"
    /\ conn[c].caller = "dashboard"
    /\ conn' = [conn EXCEPT ![c].pc = "done", ![c].pend = NoWrite]
    /\ lock' = IF lock = c THEN 0 ELSE lock
    /\ UNCHANGED <<rows, kevin_instance, kevin_balance, active, sp_in, sp_out, tr>>

\* compute_dashboard(rows) called without a connection on rows of every agent:
\* no bubble step, the whole computation in one call; the aggregation loop
\* raises on a row without the key week_amount
DirectCall(c) ==
    /\ c \in active
    /\ conn[c].pc \in {"idle", "done", "failed"}
    /\ conn' = [conn EXCEPT ![c] =
                  IF \E i \in 1..Len(rows) : HasNoAmountKey(rows[i])
                  THEN [IdleConn EXCEPT !.pc = "failed", !.caller = "direct"]
                  ELSE [IdleConn EXCEPT
                          !.pc = "done", !.caller = "direct",
                          !.res = compute_dashboard(rows, NoExplanation)]]
    /\ UNCHANGED <<rows, kevin_instance, kevin_balance, active, lock, sp_in, sp_out, tr>>

\* a new week is uploaded: Kevin's row carries the new week's amount
NewWeek(k) ==
    /\ \A c \in Conns : conn[c].pc \in {"idle", "done", "failed"}
    /\ kevin_index(rows) # 0
    /\ rows[kevin_index(rows)].week_amount # k
    /\ rows' = ModifiedRows(rows, kevin_index(rows), k)
    /\ conn' = [c \in Conns |-> IdleConn]
    /\ UNCHANGED <<kevin_instance, kevin_balance, active, lock, sp_in, sp_out, tr>>

-----------------------------------------------------------------------------
(* Direct calls of calculate_split_percentages *)

SplitNames == {<<"Gabe">>, <<"Gabe", "Orso">>, <<"Gabe", "Orso", "Trev">>,
               <<"Gabe", "Orso", "Trev", "Dro">>}
SplitNets == {-70000, -10000, 5000, 15000, 49999, 50000, 90000}
SplitBooks == {-50000, 0, 100000, 110000, 120000}

SplitData(ns) ==
    [Range(ns) -> [net : IF Len(ns) > 3 THEN {15000, 90000} ELSE SplitNets,
                   num_players : PlayerCounts]]

SplitInputs ==
    {[names |-> <<>>, data |-> <<>>, book_total |-> b] : b \in SplitBooks}
    \cup
    UNION { {[names |-> ns, data |-> d, book_total |-> b] :
                d \in SplitData(ns), b \in SplitBooks} : ns \in SplitNames }

NoSplitIn == [names |-> <<>>, data |-> <<>>, book_total |-> 0]
NoSplitOut ==
    [done |-> FALSE, splits |-> <<>>, rule |-> "empty",
     explanation |-> [kind |-> "standard", winner |-> NONE, low |-> NONE]]

ApplySplit ==
    /\ ~sp_out.done
    /\ sp_out' = [done |-> TRUE,
                  splits |-> calculate_split_percentages(sp_in.names, sp_in.data,
                                                         sp_in.book_total),
                  rule |-> SplitRule(sp_in.names, sp_in.data, sp_in.book_total),
                  explanation |->
                      format_split_explanation(sp_in.names,
                          calculate_split_percentages(sp_in.names, sp_in.data,
                                                      sp_in.book_total))]
    /\ UNCHANGED <<rows, kevin_instance, kevin_balance, active, conn, lock, sp_in, tr>>

-----------------------------------------------------------------------------
(* Direct calls of compute_transfers *)

\* one caller at a time: dashboard requests and bubble test runs, week after week
NoTransferCall ==
    [pc |-> "idle", names |-> <<>>, settlement |-> <<>>,
     payers |-> <<>>, receivers |-> <<>>, i |-> 1, j |-> 1, transfers |-> <<>>]

\* settlements in ticks: whole dollars, half a cent above them, the tolerance,
\* one tick and half a cent above the tolerance, and the same negated
TransferAmounts ==
    {-12000, -6030, -6000, -90, -61, -60, 0, 60, 61, 90, 6000, 6030, 12000}
TransferNames == {<<>>, <<"Gabe">>, <<"Gabe", "Orso">>, <<"Gabe", "Orso", "Trev">>,
                  <<"Gabe", "Orso", "Trev", "Dro">>}
TransferInputs ==
    UNION { {[NoTransferCall EXCEPT !.names = ns, !.settlement = s] :
                s \in [Range(ns) -> IF Len(ns) > 3
                                      THEN {-6000, -61, 0, 61, 3000, 6000, 9000, 12000}
                                      ELSE TransferAmounts]} : ns \in TransferNames }

\* compute_transfers up to the loop: the two lists, sorted, and i = j = 0
PartitionAndSort ==
    /\ tr.pc = "idle"
    /\ tr' = [tr EXCEPT !.pc = "loop",
                        !.payers = SortDesc(PayersOf(tr.names, tr.settlement)),
                        !.receivers = SortDesc(ReceiversOf(tr.names, tr.settlement)),
                        !.i = 1, !.j = 1, !.transfers = <<>>]
    /\ UNCHANGED <<rows, kevin_instance, kevin_balance, active, conn, lock, sp_in, sp_out>>

\* one iteration of the while loop
LoopIteration ==
    /\ tr.pc = "loop"
    /\ LoopCondition(tr)
    /\ LET n == MatchStep(tr)
       IN  tr' = [tr EXCEPT !.payers = n.payers, !.receivers = n.receivers,
                            !.i = n.i, !.j = n.j, !.transfers = n.transfers]
    /\ UNCHANGED <<rows, kevin_instance, kevin_balance, active, conn, lock, sp_in, sp_out>>

\* the loop condition is false: return transfers
ReturnTransfers ==
    /\ tr.pc = "loop"
    /\ ~LoopCondition(tr)
    /\ tr' = [tr EXCEPT !.pc = "returned"]
    /\ UNCHANGED <<rows, kevin_instance, kevin_balance, active, conn, lock, sp_in, sp_out>>

-----------------------------------------------------------------------------
(* Specifications *)

Init ==
    /\ rows \in WeekRows
    /\ kevin_instance \in BOOLEAN
    /\ kevin_balance \in IF kevin_instance THEN {NoEntry, Entry(0)} ELSE {NoEntry}
    /\ active = {1}
    /\ conn = [c \in Conns |-> IdleConn]
    /\ lock = 0
    /\ sp_in = NoSplitIn
    /\ sp_out = NoSplitOut
    /\ tr = NoTransferCall

Next ==
    \/ \E c \in Conns : Connect(c, "dashboard")
    \/ \E c \in Conns : Connect(c, "test")
    \/ \E c \in Conns : ReadBalance(c)
    \/ \E c \in Conns : WriteBack(c)
    \/ \E c \in Conns : Commit(c)
    \/ \E c \in Conns : Close(c)
    \/ \E c \in Conns : DirectCall(c)
    \/ \E k \in KevinAmounts : NewWeek(k)

Spec == Init /\ [][Next]_vars

\* concurrent callers, each with its own connection
InitConc ==
    /\ rows \in ConcRows
    /\ kevin_instance = TRUE
    /\ kevin_balance \in {NoEntry, Entry(0)}
    /\ active = Conns
    /\ conn = [c \in Conns |-> IdleConn]
    /\ lock = 0
    /\ sp_in = NoSplitIn
    /\ sp_out = NoSplitOut
    /\ tr = NoTransferCall

SpecConc == InitConc /\ [][Next]_vars

\* calculate_split_percentages on arbitrary arguments
InitSplit ==
    /\ rows = <<>>
    /\ kevin_instance = FALSE
    /\ kevin_balance = NoEntry
    /\ active = {}
    /\ conn = [c \in Conns |-> IdleConn]
    /\ lock = 0
    /\ sp_in \in SplitInputs
    /\ sp_out = NoSplitOut
    /\ tr = NoTransferCall

NextSplit == ApplySplit

SpecSplit == InitSplit /\ [][NextSplit]_vars

\* callers that hand over a row of Kevin whose amount is None or missing
InitMissing ==
    /\ rows \in MissingRows
    /\ kevin_instance \in BOOLEAN
    /\ kevin_balance \in IF kevin_instance THEN {NoEntry, Entry(0)} ELSE {NoEntry}
    /\ active = {1}
    /\ conn = [c \in Conns |-> IdleConn]
    /\ lock = 0
    /\ sp_in = NoSplitIn
    /\ sp_out = NoSplitOut
    /\ tr = NoTransferCall

SpecMissing == InitMissing /\ [][Next]_vars

\* compute_transfers on arbitrary settlement maps, one loop iteration per step
InitTransfers ==
    /\ rows = <<>>
    /\ kevin_instance = FALSE
    /\ kevin_balance = NoEntry
    /\ active = {}
    /\ conn = [c \in Conns |-> IdleConn]
    /\ lock = 0
    /\ sp_in = NoSplitIn
    /\ sp_out = NoSplitOut
    /\ tr \in TransferInputs

NextTransfers == PartitionAndSort \/ LoopIteration \/ ReturnTransfers

SpecTransfers == InitTransfers /\ [][NextTransfers]_vars

\* the call runs to its end: a single thread executes it, so an enabled step is
\* eventually taken
SpecTransfersFair == SpecTransfers /\ WF_vars(NextTransfers)

-----------------------------------------------------------------------------
(* Properties *)

SumOver(names, f) == SumSeq([i \in 1..Len(names) |-> f[names[i]]])

\* connection c has the result of a dashboard computation
Evaluated(c) == conn[c].pc \in {"applied", "done"} /\ conn[c].caller = "dashboard"

\* the bubble step of connection c found the Kevin instance and Kevin's row
KevinSeen(c) ==
    /\ conn[c].pc \in {"read", "applied", "done"}
    /\ conn[c].caller \in {"dashboard", "test"}
    /\ kevin_instance
    /\ kevin_index(PlayerRows(c)) # 0

\* the amount of Kevin's row in the rows the bubble step returned
EmittedAmount(c) == conn[c].res.rows[kevin_index(PlayerRows(c))].week_amount

Potential(c) == conn[c].current_balance + conn[c].weekly_amount

\* C1: for every call of calculate_split_percentages with at least one group
\* the returned fractions sum to 1.0 (60 sixtieths), whichever rule fires.
C1_FractionsSumToOne ==
    (sp_out.done /\ Len(sp_in.names) >= 1)
        => SumOver(sp_in.names, sp_out.splits) = FracDen

\* C2: for every non-empty row set processed by compute_dashboard the
\* settlements of the groups sum to zero within one cent.
C2_SettlementsSumToZero ==
    \A c \in Conns :
        (Evaluated(c) /\ conn[c].res.rows # <<>>)
            => Abs(SumOver(conn[c].res.names,
                           [a \in Range(conn[c].res.names) |->
                               conn[c].res.agents[a].settlement])) <= CentsTolerance

PaidBy(transfers, g) ==
    SumSeq([i \in 1..Len(transfers) |->
               IF transfers[i].from = g THEN transfers[i].amount ELSE 0])

ReceivedBy(transfers, g) ==
    SumSeq([i \in 1..Len(transfers) |->
               IF transfers[i].to = g THEN transfers[i].amount ELSE 0])

\* C3: for every group g of a dashboard computation, what g pays in the
\* transfer list minus what g receives equals settlement[g] within one cent.
C3_TransfersSettleEveryGroup ==
    \A c \in Conns :
        Evaluated(c) =>
            \A g \in Range(conn[c].res.names) :
                Abs((PaidBy(conn[c].res.transfers, g)
                       - ReceivedBy(conn[c].res.transfers, g)) * TicksPerCent
                    - conn[c].res.agents[g].settlement) <= CentsTolerance

Finishes(c) == conn[c].pc = "applied" /\ conn'[c].pc = "done"

\* C6: across consecutive evaluations the stored balance carries the running
\* sum while evaluations defer, returns to 0 at the release, and goes from a
\* non-zero value to zero only by a release.
C6_AccumulatorCarriesRunningSum ==
    [][\A c \in Conns :
          (Finishes(c) /\ KevinSeen(c)) =>
             /\ Abs(Potential(c)) < BubbleThreshold
                   => get_kevin_balance(kevin_balance') = Potential(c)
             /\ Abs(Potential(c)) >= BubbleThreshold
                   => get_kevin_balance(kevin_balance') = 0
             /\ (get_kevin_balance(kevin_balance) # 0
                   /\ get_kevin_balance(kevin_balance') = 0)
                   => Abs(Potential(c)) >= BubbleThreshold]_vars

\* the balance as seen through connection c: its own uncommitted write, else
\* the committed row
Visible(c) ==
    IF conn[c].pend.has THEN Entry(conn[c].pend.val) ELSE kevin_balance

\* the bubble step of connection c runs its write-back part in this step
Applies(c) == conn[c].pc = "read" /\ conn'[c].pc = "applied"

\* C7 as stated: applying apply_kevin_bubble_logic leaves the stored balance
\* as it was (the function only returns the new value).
C7_AdjusterLeavesBalance ==
    [][\A c \in Conns : Applies(c) => Visible(c)' = Visible(c)]_vars

\* C7 amended: apply_kevin_bubble_logic itself executes the write-back on the
\* caller's cursor; the write stays in the caller's open transaction, so the
\* committed balance is unchanged by the bubble step and changes only in the
\* step in which a caller commits.
C7_WriteStaysInTransaction ==
    [][/\ \A c \in Conns :
             Applies(c) => (conn'[c].pend.has /\ kevin_balance' = kevin_balance)
       /\ kevin_balance' # kevin_balance
             => \E c \in Conns : Finishes(c) /\ conn[c].caller = "test"]_vars

\* the bubble step has written a balance that differs from the committed one
C7_Witness ==
    \E c \in Conns :
        /\ conn[c].pc = "applied"
        /\ conn[c].pend.has
        /\ kevin_balance.has
        /\ conn[c].pend.val # kevin_balance.current_balance

\* the bubble step of connection c changed nothing
IsNoOp(c) ==
    /\ conn[c].res.rows = PlayerRows(c)
    /\ conn[c].res.kevin_bubble = NoExplanation
    /\ ~conn[c].pend.has

\* C8 as stated: with Kevin absent from the rows, or with no kevin_balance
\* entry, the bubble step is a no-op.
C8_NoEntryIsNoOp ==
    \A c \in Conns :
        (conn[c].pc = "applied"
           /\ (kevin_index(PlayerRows(c)) = 0 \/ ~kevin_balance.has))
            => IsNoOp(c)

\* C8 amended: the bubble step is a no-op when Kevin is absent from the rows
\* or has no current player instance; a missing kevin_balance entry is read
\* as balance 0 and the step defers or releases as usual, creating the entry.
C8_AbsentIsNoOp ==
    \A c \in Conns :
        conn[c].pc = "applied" =>
            /\ (kevin_index(PlayerRows(c)) = 0 \/ ~kevin_instance) => IsNoOp(c)
            /\ (KevinSeen(c) /\ ~kevin_balance.has)
                  => (conn[c].current_balance = 0 /\ conn[c].pend.has)

\* Kevin's row is there but the instance is not: nothing is touched
C8_Witness ==
    \E c \in Conns :
        /\ conn[c].pc = "applied"
        /\ ~kevin_instance
        /\ kevin_index(PlayerRows(c)) # 0
        /\ PlayerRows(c)[kevin_index(PlayerRows(c))].week_amount # 0
        /\ IsNoOp(c)

\* connection c has read the balance and not yet finished its transaction
InReadModifyWrite(c) ==
    conn[c].pc = "read" \/ (conn[c].pc = "applied" /\ conn[c].pend.has)

\* C9: the read and write-back of two concurrent computations never
\* interleave, and a committed write-back is never based on a balance that
\* another computation has replaced in the meantime (no lost update).
C9_Serialized ==
    /\ [](\A c1, c2 \in Conns :
             (c1 # c2) => ~(InReadModifyWrite(c1) /\ InReadModifyWrite(c2)))
    /\ [][\A c \in Conns :
             (Finishes(c) /\ conn[c].caller = "test" /\ conn[c].pend.has)
                => conn[c].current_balance = get_kevin_balance(kevin_balance)]_vars

\* the classification of the groups of a direct call, from the arguments
SpLow == {a \in Range(sp_in.names) : IsLowExposure(sp_in.data[a])}
SpDominant ==
    {a \in Range(sp_in.names) :
        sp_in.book_total > DominantBook /\ IsDominant(sp_in.data[a], sp_in.book_total)}

\* every low-exposure group has 0.20 and the others share 0.80 equally
LowOnlyAssignment ==
    \A a \in Range(sp_in.names) :
        sp_out.splits[a] =
            IF a \in SpLow THEN 12
            ELSE 48 \div Max(Len(sp_in.names) - Cardinality(SpLow), 1)

-----------------------------------------------------------------------------
(* The rules of calculate_split_percentages, one by one *)

\* the dominant winner the evaluator meets first in the order of the groups
FirstDominant ==
    LET c == SelectSeq(sp_in.names, LAMBDA n : n \in SpDominant)
    IN  IF c = <<>> THEN NONE ELSE Head(c)

CombinedCondition ==
    SpDominant # {} /\ Cardinality(SpLow) = 1 /\ FirstDominant \notin SpLow

\* C11: with three groups, when there is a dominant winner, exactly one
\* low-exposure group and the winner is not that group, the winner gets 0.45,
\* the third group 0.35 and the low-exposure group 0.15; when any of these
\* conditions is missing no group gets 0.45, 0.35 or 0.15.
C11_CombinedRule ==
    (sp_out.done /\ Len(sp_in.names) = 3)
        => IF CombinedCondition
           THEN \A a \in Range(sp_in.names) :
                    sp_out.splits[a] = IF a = FirstDominant THEN 27
                                       ELSE IF a \in SpLow THEN 9 ELSE 21
           ELSE \A a \in Range(sp_in.names) : sp_out.splits[a] \notin {27, 21, 9}

\* the combined rule fires, and a third group gets 0.35
C11_Witness ==
    /\ sp_out.done /\ Len(sp_in.names) = 3 /\ CombinedCondition
    /\ \E a \in Range(sp_in.names) :
           a # FirstDominant /\ a \notin SpLow /\ sp_out.splits[a] = 21


\* C12: with three groups, when a dominant winner exists and no group is
\* low-exposure, the winner gets 0.40 and each of the other two gets 0.30.
C12_DominantRule ==
    (sp_out.done /\ Len(sp_in.names) = 3 /\ SpDominant # {} /\ SpLow = {})
        => \A a \in Range(sp_in.names) :
               sp_out.splits[a] = IF a = FirstDominant THEN 24 ELSE 18

\* the dominant-winner rule fires on a book total just above the threshold
C12_Witness ==
    /\ sp_out.done /\ Len(sp_in.names) = 3 /\ SpDominant # {} /\ SpLow = {}
    /\ sp_out.splits[FirstDominant] = 24
    /\ \E a \in Range(sp_in.names) : sp_out.splits[a] = 18

\* the two conditions written with the thresholds of the rules: fewer than 5
\* members and |net| below 500.00; net positive and above 75% of a book total
\* above 1000.00
StrictLow ==
    {a \in Range(sp_in.names) :
        sp_in.data[a].num_players < 5 /\ Abs(sp_in.data[a].net) < 50000}
StrictDominant ==
    {a \in Range(sp_in.names) :
        /\ sp_in.book_total > 100000
        /\ sp_in.data[a].net > 0
        /\ 4 * sp_in.data[a].net > 3 * sp_in.book_total}

\* C13: with three groups, when no group is low-exposure and no group is a
\* dominant winner, every group gets exactly 1/3; the comparisons are strict,
\* so 5 members, |net| = 500.00 and book_total = 1000.00 do not trigger a rule.
C13_EvenSplit ==
    (sp_out.done /\ Len(sp_in.names) = 3 /\ StrictLow = {} /\ StrictDominant = {})
        => \A a \in Range(sp_in.names) : 3 * sp_out.splits[a] = FracDen

\* an even split with all three boundary values present: a group of 5 members
\* with a small net, a group with |net| = 500.00 and few members, and a group
\* above 75% of a book total of exactly 1000.00
C13_Witness ==
    /\ sp_out.done /\ Len(sp_in.names) = 3
    /\ StrictLow = {} /\ StrictDominant = {}
    /\ sp_in.book_total = 100000
    /\ \E a, b, c \in Range(sp_in.names) :
           /\ sp_in.data[a].num_players = 5 /\ Abs(sp_in.data[a].net) < 50000
           /\ sp_in.data[b].num_players < 5 /\ Abs(sp_in.data[b].net) = 50000
           /\ 4 * sp_in.data[c].net > 3 * sp_in.book_total
    /\ \A a \in Range(sp_in.names) : 3 * sp_out.splits[a] = FracDen

\* C14: with a number N of groups other than three every group gets exactly
\* 1/N whatever the nets, member counts and book total; with no group the
\* result is the empty map.
C14_EvenUnlessThree ==
    (sp_out.done /\ Len(sp_in.names) # 3)
        => /\ DOMAIN sp_out.splits = Range(sp_in.names)
           /\ \A a \in Range(sp_in.names) :
                  Len(sp_in.names) * sp_out.splits[a] = FracDen
           /\ (Len(sp_in.names) = 0 => sp_out.splits = <<>>)

\* four groups, one of them low-exposure and one above 75% of the book total,
\* each with a quarter
C14_Witness ==
    /\ sp_out.done /\ Len(sp_in.names) = 4
    /\ StrictLow # {} /\ StrictDominant # {}
    /\ \A a \in Range(sp_in.names) : 4 * sp_out.splits[a] = FracDen

\* no group: the empty map
C14_WitnessEmpty == sp_out.done /\ sp_in.names = <<>> /\ sp_out.splits = <<>>


\* the arguments of a call as compute_dashboard makes it: three groups whose
\* nets sum to book_total
NetsSumToBook ==
    /\ Len(sp_in.names) = 3
    /\ SumSeq([i \in 1..3 |-> sp_in.data[sp_in.names[i]].net]) = sp_in.book_total

ExplanationMatchesRule ==
    /\ sp_out.explanation.kind = "combined" <=> sp_out.rule = "combined"
    /\ sp_out.explanation.kind = "great_week" <=> sp_out.rule = "dominant"
    /\ sp_out.explanation.kind = "low" <=> sp_out.rule = "low"
    /\ sp_out.explanation.kind = "standard" <=> sp_out.rule = "even"
    /\ sp_out.explanation.kind \in {"combined", "great_week"}
          => sp_out.explanation.winner = FirstDominant
    /\ sp_out.explanation.kind \in {"combined", "low"}
          => sp_out.explanation.low \in SpLow

\* C16: the explanation reports the rule that actually fired: the combined
\* message exactly when the combined rule fired, the low-exposure message
\* exactly when the low-exposure-only rule fired, the dominant message exactly
\* when the dominant-only rule fired, the default message exactly when the
\* even split was used.
C16_ExplanationReportsRule ==
    (sp_out.done /\ Len(sp_in.names) > 0) => ExplanationMatchesRule

\* the same for calls in which not all three groups are low-exposure
ExplanationReportsRuleUnlessAllLow ==
    (sp_out.done /\ Len(sp_in.names) > 0 /\ Cardinality(SpLow) < 3)
        => ExplanationMatchesRule


-----------------------------------------------------------------------------
(* The aggregation of compute_dashboard *)

\* connection c holds the result of a compute_dashboard call
Computed(c) ==
    conn[c].pc \in {"applied", "done"} /\ conn[c].caller \in {"dashboard", "direct"}

\* the rows of group a among the rows the aggregation loop went through
RowIdx(r, a) == {i \in 1..Len(r.rows) : r.rows[i].agent = a}

\* the sum of the negated amounts of the rows with index in S
RECURSIVE NegatedSum(_, _)
NegatedSum(rs, S) ==
    IF S = {} THEN 0
    ELSE LET i == CHOOSE j \in S : TRUE
         IN  NegatedSum(rs, S \ {i}) - rs[i].week_amount

\* C17: after aggregation every group's net is the sum of the negated amounts
\* of its rows, its member count is the number of its rows, its member list
\* holds exactly those rows, and book_total is the sum of the groups' nets.
C17_Aggregation ==
    \A c \in Conns : Computed(c) =>
        LET r == conn[c].res
        IN  /\ Range(r.names) = {r.rows[i].agent : i \in 1..Len(r.rows)}
            /\ \A a \in Range(r.names) :
                   /\ r.agents[a].net = NegatedSum(r.rows, RowIdx(r, a))
                   /\ r.agents[a].num_players = Cardinality(RowIdx(r, a))
                   /\ Len(r.agents[a].players) = Cardinality(RowIdx(r, a))
                   /\ \A i \in RowIdx(r, a) :
                          \E k \in 1..Len(r.agents[a].players) :
                             LET p == r.agents[a].players[k]
                             IN  /\ p.player_id = r.rows[i].player_id
                                 /\ p.agent = a
                                 /\ p.display_name = r.rows[i].display_name
                                 /\ p.week_amount = r.rows[i].week_amount
            /\ r.book_total = SumOver(r.names, [a \in Range(r.names) |-> r.agents[a].net])

\* a dashboard computation over three groups, one of them with a negative and
\* a positive row
C17_Witness ==
    \E c \in Conns :
        /\ Computed(c)
        /\ Len(conn[c].res.names) = 3
        /\ \E a \in Range(conn[c].res.names) :
               /\ conn[c].res.agents[a].num_players > LowPlayers
               /\ \E p, q \in Range(conn[c].res.agents[a].players) :
                      p.week_amount < 0 /\ q.week_amount > 0


\* C18: rows of the excluded group are ignored by the computation: the group
\* is not among the aggregates, its rows count for no net and not for
\* book_total, and it is in no transfer.
C18_ExcludedIgnored ==
    \A c \in Conns : Computed(c) =>
        LET r == conn[c].res
        IN  /\ Excluded \notin Range(r.names)
            /\ r.book_total =
                   NegatedSum(r.rows, {i \in 1..Len(r.rows) : r.rows[i].agent # Excluded})
            /\ \A k \in 1..Len(r.transfers) :
                   r.transfers[k].from # Excluded /\ r.transfers[k].to # Excluded

\* the same for the computations of the dashboard, whose row query leaves the
\* excluded group out
ExcludedIgnoredByDashboard ==
    \A c \in Conns : Evaluated(c) =>
        /\ Excluded \notin Range(conn[c].res.names)
        /\ conn[c].res.book_total =
               NegatedSum(rows, {i \in 1..Len(rows) : rows[i].agent # Excluded})
                 + (IF KevinSeen(c) THEN conn[c].weekly_amount - EmittedAmount(c) ELSE 0)

\* C19: every annotated row is labelled "Request" when the contribution (the
\* negated amount) is strictly positive and "Pay" otherwise, zero included,
\* and carries the absolute value of the contribution.
C19_ActionLabels ==
    \A c \in Conns : Computed(c) =>
        \A a \in Range(conn[c].res.names) :
            \A k \in 1..Len(conn[c].res.agents[a].players) :
                LET p == conn[c].res.agents[a].players[k]
                IN  /\ p.profit = -p.week_amount
                    /\ p.action = "Request" <=> -p.week_amount > 0
                    /\ p.action = "Pay" <=> -p.week_amount <= 0
                    /\ p.abs_amount >= 0
                    /\ p.abs_amount \in {p.week_amount, -p.week_amount}

\* one group with a positive, a zero and a negative contribution
C19_Witness ==
    \E c \in Conns :
        /\ Computed(c)
        /\ \E a \in Range(conn[c].res.names) :
               \E p, q, z \in Range(conn[c].res.agents[a].players) :
                  /\ p.week_amount < 0 /\ p.action = "Request"
                  /\ q.week_amount > 0 /\ q.action = "Pay"
                  /\ z.week_amount = 0 /\ z.action = "Pay" /\ z.abs_amount = 0

\* C20: every group's final_balance is book_total times its fraction and its
\* settlement is its net minus its final_balance; a group with a positive
\* settlement holds more than its share and only ever pays, a group with a
\* negative settlement only ever receives.
C20_BalanceAndSettlement ==
    \A c \in Conns : Computed(c) =>
        LET r == conn[c].res
        IN  \A a \in Range(r.names) :
                /\ r.agents[a].final_balance = r.book_total * r.agents[a].split_percentage
                /\ r.agents[a].settlement =
                       r.agents[a].net * TicksPerCent - r.agents[a].final_balance
                /\ r.agents[a].settlement > 0
                      => /\ r.agents[a].net * TicksPerCent > r.agents[a].final_balance
                         /\ \A k \in 1..Len(r.transfers) : r.transfers[k].to # a
                /\ r.agents[a].settlement < 0
                      => /\ r.agents[a].net * TicksPerCent < r.agents[a].final_balance
                         /\ \A k \in 1..Len(r.transfers) : r.transfers[k].from # a

\* a computation with unequal fractions in which one group pays another
C20_Witness ==
    \E c \in Conns :
        /\ Computed(c)
        /\ conn[c].res.rule \in {"combined", "dominant"}
        /\ \E k \in 1..Len(conn[c].res.transfers) :
               LET t == conn[c].res.transfers[k]
               IN  /\ conn[c].res.agents[t.from].settlement > 0
                   /\ conn[c].res.agents[t.to].settlement < 0


-----------------------------------------------------------------------------
(* compute_transfers on its own *)

\* the groups above the tolerance and below minus the tolerance, from the
\* arguments of the call
TrPayers == {a \in Range(tr.names) : tr.settlement[a] > CentsTolerance}
TrReceivers == {a \in Range(tr.names) : tr.settlement[a] < -CentsTolerance}

\* C21: every transfer emitted so far has an amount of at least the cent
\* tolerance (0.01) after rounding, so none is zero or negative.
C21_NoZeroTransfer ==
    \A k \in 1..Len(tr.transfers) :
        /\ tr.transfers[k].amount * TicksPerCent >= CentsTolerance
        /\ tr.transfers[k].amount > 0

\* a call returned a transfer of exactly one cent, for a payer one tick above
\* the tolerance
C21_Witness ==
    /\ tr.pc = "returned"
    /\ \E k \in 1..Len(tr.transfers) :
           /\ tr.transfers[k].amount = 1
           /\ tr.settlement[tr.transfers[k].from] = CentsTolerance + 1

\* C22 as stated: a call returns at most len(payers) + len(receivers) - 1
\* transfers.
C22_TransferCount ==
    tr.pc = "returned"
        => Len(tr.transfers) <= Cardinality(TrPayers) + Cardinality(TrReceivers) - 1

\* C22 amended: the same when there is a payer or a receiver; with neither the
\* call returns no transfer (and the bound would be -1).
C22_TransferCountNonEmpty ==
    tr.pc = "returned"
        => IF TrPayers \cup TrReceivers = {}
           THEN tr.transfers = <<>>
           ELSE Len(tr.transfers)
                   <= Cardinality(TrPayers) + Cardinality(TrReceivers) - 1

\* a call with two payers and two receivers returned exactly three transfers
C22_Witness ==
    /\ tr.pc = "returned"
    /\ Cardinality(TrPayers) = 2 /\ Cardinality(TrReceivers) = 2
    /\ Len(tr.transfers) = 3


\* C25: the matching loop terminates for every settlement map: every
\* iteration advances the payer pointer, the receiver pointer or both, neither
\* pointer ever goes back, and the call returns.
C25_LoopTerminates ==
    /\ [][LoopIteration =>
            /\ tr'.i >= tr.i /\ tr'.j >= tr.j
            /\ tr'.i + tr'.j > tr.i + tr.j]_vars
    /\ <>(tr.pc = "returned")

\* a call returned after both pointers moved, the payer list being exhausted
\* while a receiver was left
C25_Witness ==
    /\ tr.pc = "returned"
    /\ tr.i > Len(tr.payers) /\ tr.i > 2
    /\ tr.j > 1 /\ tr.j <= Len(tr.receivers)

\* position of group a in the order of the groups
NameIndex(a) == CHOOSE i \in 1..Len(tr.names) : tr.names[i] = a

\* a comes before b in the descending order of |settlement|, ties in the
\* order of the groups
LargerFirst(a, b) ==
    \/ Abs(tr.settlement[a]) > Abs(tr.settlement[b])
    \/ Abs(tr.settlement[a]) = Abs(tr.settlement[b]) /\ NameIndex(a) < NameIndex(b)

\* C26: largest first: the first transfer is from the largest payer to the
\* largest receiver, and along the output the paying groups, and the
\* receiving groups, follow the descending order of their amounts, equal
\* amounts in their original order.
C26_LargestFirst ==
    /\ Len(tr.transfers) >= 1
          => /\ \A a \in TrPayers \ {tr.transfers[1].from} :
                    LargerFirst(tr.transfers[1].from, a)
             /\ \A a \in TrReceivers \ {tr.transfers[1].to} :
                    LargerFirst(tr.transfers[1].to, a)
    /\ \A k, l \in 1..Len(tr.transfers) :
           k < l => /\ \/ tr.transfers[k].from = tr.transfers[l].from
                       \/ LargerFirst(tr.transfers[k].from, tr.transfers[l].from)
                    /\ \/ tr.transfers[k].to = tr.transfers[l].to
                       \/ LargerFirst(tr.transfers[k].to, tr.transfers[l].to)

\* two payers of equal amount pay one receiver, the earlier group first
C26_Witness ==
    /\ tr.pc = "returned"
    /\ Len(tr.transfers) = 2
    /\ tr.transfers[1].from # tr.transfers[2].from
    /\ tr.settlement[tr.transfers[1].from] = tr.settlement[tr.transfers[2].from]
    /\ tr.transfers[1].to = tr.transfers[2].to

\* C27: in every transfer the paying group has a settlement above the
\* tolerance and the receiving group one below minus the tolerance; so no
\* transfer has one group on both sides, no group both pays and receives, and
\* a group within the tolerance is in no transfer.
C27_PayersPayReceiversReceive ==
    /\ \A k \in 1..Len(tr.transfers) :
           /\ tr.settlement[tr.transfers[k].from] > CentsTolerance
           /\ tr.settlement[tr.transfers[k].to] < -CentsTolerance
           /\ tr.transfers[k].from # tr.transfers[k].to
    /\ \A k, l \in 1..Len(tr.transfers) : tr.transfers[k].from # tr.transfers[l].to
    /\ (tr.pc = "returned" /\ TrPayers = {}) => tr.transfers = <<>>
    /\ (tr.pc = "returned" /\ TrReceivers = {}) => tr.transfers = <<>>

\* a call returned a transfer while a group exactly at the tolerance, or at
\* minus the tolerance, was left out
C27_Witness ==
    /\ tr.pc = "returned"
    /\ tr.transfers # <<>>
    /\ \E a \in Range(tr.names) :
           /\ Abs(tr.settlement[a]) = CentsTolerance
           /\ \A k \in 1..Len(tr.transfers) :
                  tr.transfers[k].from # a /\ tr.transfers[k].to # a


-----------------------------------------------------------------------------
(* The bubble step over several evaluations *)

\* connection c holds what the bubble step returned for Kevin's row
BubbleDone(c) == KevinSeen(c) /\ conn[c].pc \in {"applied", "done"}

\* C24: bubble idempotence.  With weekly amount 0 and a previous balance under
\* the threshold the bubble step leaves the balance equal to the previous
\* balance, puts 0 in Kevin's row and returns a deferral note reporting 0
\* added; an evaluation of such a week, repeated any number of times, never
\* changes the stored balance.
C24_ZeroWeekKeepsBalance ==
    /\ [](\A c \in Conns :
            (/\ BubbleDone(c) /\ conn[c].weekly_amount = 0
             /\ Abs(conn[c].current_balance) < BubbleThreshold)
              => /\ EmittedAmount(c) = 0
                 /\ conn[c].res.kevin_bubble =
                        [kind |-> "deferred", weekly_amount |-> 0,
                         balance |-> conn[c].current_balance]
                 /\ conn[c].pc = "applied"
                       => conn[c].pend = [has |-> TRUE, val |-> conn[c].current_balance])
    /\ [][\A c \in Conns :
            (Finishes(c) /\ KevinSeen(c) /\ conn[c].weekly_amount = 0)
               => get_kevin_balance(kevin_balance') = get_kevin_balance(kevin_balance)]_vars

\* a committed evaluation of a week with amount 0 on a non-zero balance
C24_Witness ==
    \E c \in Conns :
        /\ BubbleDone(c) /\ conn[c].pc = "done" /\ conn[c].caller = "test"
        /\ conn[c].weekly_amount = 0
        /\ conn[c].current_balance # 0
        /\ kevin_balance = Entry(conn[c].current_balance)

\* C28: the stored balance, and every balance written back, committed or not,
\* is under the threshold in absolute value.
C28_BalanceUnderThreshold ==
    /\ Abs(get_kevin_balance(kevin_balance)) < BubbleThreshold
    /\ \A c \in Conns :
           conn[c].pend.has => Abs(conn[c].pend.val) < BubbleThreshold

\* a committed deferral of a weekly amount at or beyond the threshold, which
\* left a non-zero balance of the opposite sign
C28_Witness ==
    \E c \in Conns :
        /\ BubbleDone(c) /\ conn[c].pc = "done" /\ conn[c].caller = "test"
        /\ Abs(conn[c].weekly_amount) >= BubbleThreshold
        /\ conn[c].current_balance # 0
        /\ kevin_balance.has
        /\ kevin_balance.current_balance \notin {0, conn[c].current_balance}

\* C29: bubble conservation, evaluation by evaluation: the stored balance
\* before an evaluation plus the weekly amount supplied equals the amount
\* emitted in Kevin's row plus the stored balance after it, so that over any
\* sequence initial balance + weekly amounts = emitted amounts + balance.
C29_Conservation ==
    [][\A c \in Conns :
          (Finishes(c) /\ KevinSeen(c))
             => get_kevin_balance(kevin_balance) + conn[c].weekly_amount
                   = EmittedAmount(c) + get_kevin_balance(kevin_balance')]_vars

\* the same for the evaluations of a caller that commits
ConservationWhenCommitted ==
    [][\A c \in Conns :
          (Finishes(c) /\ KevinSeen(c) /\ conn[c].caller = "test")
             => get_kevin_balance(kevin_balance) + conn[c].weekly_amount
                   = EmittedAmount(c) + get_kevin_balance(kevin_balance')]_vars

\* C30: the bubble step does not modify its input: the caller's rows are
\* unchanged by it, and the returned list has the same length and order and
\* differs from the input at most in the amount of the first row of Kevin.
C30_InputUnchanged ==
    /\ [](\A c \in Conns :
            (conn[c].pc \in {"applied", "done"} /\ conn[c].caller \in {"dashboard", "test"})
              => LET input  == PlayerRows(c)
                     output == conn[c].res.rows
                 IN  /\ Len(output) = Len(input)
                     /\ \A i \in 1..Len(input) :
                            IF i = kevin_index(input)
                            THEN /\ output[i].player_id = input[i].player_id
                                 /\ output[i].agent = input[i].agent
                                 /\ output[i].display_name = input[i].display_name
                            ELSE output[i] = input[i])
    /\ [][\A c \in Conns :
            (conn[c].pc \in {"open", "read"} /\ conn'[c].pc \in {"read", "applied"})
               => rows' = rows]_vars

\* a release put a new amount in Kevin's row, which is neither the first nor
\* the last row of the list
C30_Witness ==
    \E c \in Conns :
        /\ BubbleDone(c)
        /\ LET input == PlayerRows(c)
               idx   == kevin_index(input)
           IN  /\ idx > 1 /\ idx < Len(input)
               /\ conn[c].res.rows[idx].week_amount # input[idx].week_amount
               /\ conn[c].res.rows[idx].week_amount # 0


-----------------------------------------------------------------------------
(* Rows without an amount *)

\* Kevin's row, as the caller of connection c handed it over, has no number
\* for its amount
KevinAmountMissing(c) ==
    /\ kevin_index(PlayerRows(c)) # 0
    /\ PlayerRows(c)[kevin_index(PlayerRows(c))].amount # "value"

\* C23: a row whose amount is null or absent is treated as amount 0 by the
\* bubble step and by the aggregation: no computation fails, and the bubble
\* step takes 0 for the weekly amount of such a row.
C23_MissingAmountIsZero ==
    \A c \in Conns :
        /\ conn[c].pc # "failed"
        /\ (BubbleDone(c) /\ KevinAmountMissing(c)) => conn[c].weekly_amount = 0

\* the computations of the dashboard, whose row query coalesces a null amount
\* to 0, never fail
DashboardNeverFails ==
    \A c \in Conns : conn[c].caller = "dashboard" => conn[c].pc # "failed"


====
